---- MODULE Spec2Model ----
(***************************************************************************)
(* State-machine model of the Audio-Transcriber React application:         *)
(*   src/App.tsx                    the App component (PDF export)         *)
(*   src/unnamed/part_001           the earlier App component (text export)*)
(*   src/components/AudioUploader.tsx                                      *)
(*   src/services/geminiService.ts  the two model-gateway functions        *)
(*                                                                         *)
(* One action is one JavaScript task: an event handler, or the part of an  *)
(* async function that runs between two awaits of a remote operation.  A   *)
(* promise that is already settled when it is awaited resumes in a         *)
(* microtask, before any user event or render, so such a continuation is   *)
(* part of the action that settled it.                                     *)
(*                                                                         *)
(* JavaScript strings that the code concatenates are sequences of pieces   *)
(* (<<>> is ''); strings the code inspects character by character are      *)
(* sequences of one-character strings.                                     *)
(***************************************************************************)
EXTENDS Integers, Sequences, FiniteSets, TLC

VARIABLES
    audioFile,          \* App: useState<File | null>(null)
    transcript,         \* App: useState<TranscriptItem[] | null>(null)
    translation,        \* App: useState<TranscriptItem[] | null>(null)
    isLoading,          \* App: useState<boolean>(false)
    isTranslating,      \* App: useState<boolean>(false)
    error,              \* App: useState<string>('')
    selectedLanguage,   \* App: useState<string>(LANGUAGES[0].id)
    selectedFile,       \* AudioUploader: useState<File | null>(null)
    runs,               \* the suspended invocations of handleProcessAudio
    lastRun,            \* the invocation of handleProcessAudio that returned last
    unhandled,          \* an exception left handleProcessAudio uncaught
    saveResult          \* what the last invocation of handleSave did

vars == <<audioFile, transcript, translation, isLoading, isTranslating, error,
          selectedLanguage, selectedFile, runs, lastRun, unhandled, saveResult>>

----------------------------------------------------------------------------
(* Bounds *)

\* handleProcessAudio has no re-entrancy guard of its own; the model stops
\* starting invocations once this many are suspended.
MaxRuns == 2

----------------------------------------------------------------------------
(* JavaScript values *)

\* A parsed JSON value / the content of the transcript and translation hooks.
NullV == [kind |-> "null", items |-> <<>>]
ObjV == [kind |-> "object", items |-> <<>>]
Arr(s) == [kind |-> "array", items |-> s]

\* !v
Falsy(v) == v.kind = "null"
Present(v) == ~Falsy(v)

\* A property that an object does not have.
Absent == "<undefined>"

Item(ts, tx) == [timestamp |-> ts, text |-> tx]

\* '' as a concatenation of pieces
IsEmptyStr(s) == \A i \in 1..Len(s) : s[i] = ""

\* a || b on strings
OrElse(a, b) == IF IsEmptyStr(a) THEN b ELSE a

\* s.startsWith(p)
StartsWith(s, p) == Len(s) >= Len(p) /\ SubSeq(s, 1, Len(p)) = p

\* File objects; null is NoFile.
File(n, t) == [null |-> FALSE, name |-> n, type |-> t]
NoFile == [null |-> TRUE, name |-> <<>>, type |-> <<>>]

----------------------------------------------------------------------------
(* Inputs *)

AudioA == File(<<"a", ".", "m", "p", "3">>, <<"a", "u", "d", "i", "o", "/", "m", "p", "3">>)
AudioB == File(<<"t", "a", "l", "k">>, <<"a", "u", "d", "i", "o", "/", "w", "a", "v">>)
TextFile == File(<<"n", ".", "t", "x", "t">>, <<"t", "e", "x", "t", "/", "p", "l", "a", "i", "n">>)

AudioFiles == {AudioA, AudioB}
Files == AudioFiles \cup {TextFile}

\* e.target.files / e.dataTransfer.files: an empty list or one file
FileLists == {<<>>} \cup {<<f>> : f \in Files}

\* App.tsx LANGUAGES: the id of every entry, in order.
LANGUAGES ==
    <<"Arabic", "Bengali", "Chinese (Simplified)", "Chinese (Traditional)", "Czech",
      "Danish", "Dutch", "English", "Finnish", "French", "German", "Greek", "Gujarati",
      "Hebrew", "Hindi", "Hinglish", "Hungarian", "Indonesian", "Italian", "Japanese",
      "Kannada", "Korean", "Malayalam", "Marathi", "Norwegian", "Persian", "Polish",
      "Portuguese", "Punjabi", "Romanian", "Russian", "Slovak", "Spanish", "Swedish",
      "Tamil (Tanglish)", "Tamil (Script)", "Telugu", "Thai", "Turkish", "Ukrainian",
      "Urdu", "Vietnamese">>

LanguageIds == {LANGUAGES[i] : i \in 1..Len(LANGUAGES)}

\* The options the model picks in the select: the default, the option whose
\* translation title differs from its id, and the Tamil-script option.
LanguageChoices == {"Arabic", "Malayalam", "Tamil (Script)"}

I1 == Item("00:00-00:05", "Hello")
I2 == Item("00:05-00:10", "World")
X1 == Item("00:00-00:05", "Hola")
X2 == Item("00:05-00:10", "Mundo")

\* What the remote model can answer: a transport or model failure, a text
\* that is no JSON, or a text that is the JSON of some value.
Reject == [status |-> "reject", value |-> NullV]
Garbage == [status |-> "garbage", value |-> NullV]
Json(v) == [status |-> "json", value |-> v]

TranscribeValues ==
    {NullV, ObjV, Arr(<<>>), Arr(<<I1>>), Arr(<<I1, I2>>),
     Arr(<<Item("00:00-00:05", "")>>), Arr(<<Item(Absent, "Hello")>>)}

TranslateValues ==
    {NullV, ObjV, Arr(<<>>), Arr(<<X1>>), Arr(<<X1, X2>>),
     Arr(<<Item("", "Hola")>>), Arr(<<Item("00:00-00:05", Absent)>>)}

TranscribeResponses == {Reject, Garbage} \cup {Json(v) : v \in TranscribeValues}
TranslateResponses == {Reject, Garbage} \cup {Json(v) : v \in TranslateValues}

----------------------------------------------------------------------------
(* services/geminiService.ts *)

\* JSON.parse(response.text): throws on a text that is no JSON.
JSONparse(resp) ==
    IF resp.status = "json"
    THEN [threw |-> FALSE, value |-> resp.value]
    ELSE [threw |-> TRUE, value |-> NullV]

\* `parsedJson as TranscriptItem[]`: a compile-time assertion, no run-time check.
AsTranscriptItems(v) == v

GenerateTranscriptError ==
    <<"Failed to generate transcript from audio. The model may have returned an invalid format or the audio could not be processed. Please check the console for details.">>

TranslateError(language) ==
    <<"Failed to translate to ", language,
      ". The model may have returned an invalid format. Please check the console for details.">>

Resolved(v) == [ok |-> TRUE, value |-> v, message |-> <<>>]
Rejected(m) == [ok |-> FALSE, value |-> NullV, message |-> m]

\* generateTranscriptFromAudio once generateContent has answered with resp.
GenerateTranscriptReturn(resp) ==
    IF resp.status = "reject" \/ JSONparse(resp).threw
    THEN Rejected(GenerateTranscriptError)
    ELSE Resolved(AsTranscriptItems(JSONparse(resp).value))

\* translateTranscript before its await: transcript.map(...) throws a TypeError
\* on a value that is no array, and the catch block rethrows.
TranslatePromptThrows(t) == t.kind # "array"

\* translateTranscript once generateContent has answered with resp.
TranslateReturn(resp, language) ==
    IF resp.status = "reject" \/ JSONparse(resp).threw
    THEN Rejected(TranslateError(language))
    ELSE Resolved(AsTranscriptItems(JSONparse(resp).value))

----------------------------------------------------------------------------
(* App: the rendered controls *)

\* disabled={isLoading || isTranslating} of the uploader and the select
Disabled == isLoading \/ isTranslating

\* Mutation of GenerateDisabled: the button is re-enabled once transcription ends.
GenerateDisabledWhileLoadingOnly == audioFile.null \/ isLoading

\* disabled={!audioFile || isLoading || isTranslating} of the generate button
GenerateDisabled == audioFile.null \/ isLoading \/ isTranslating

\* {(transcript || translation) && <button ... disabled={!translation}>}
SaveShown == Present(transcript) \/ Present(translation)
SaveDisabled == Falsy(translation)

\* part_001: {transcript && translation && <button ... disabled={isProcessing}>}
SaveTextShown == Present(transcript) /\ Present(translation)
SaveTextDisabled == isLoading \/ isTranslating

----------------------------------------------------------------------------
(* App: handleProcessAudio *)

\* An invocation of handleProcessAudio: where it is suspended, the values its
\* closure holds, and what the gateway functions it called did:
\*   fnTranscribe, fnTranslate        calls of generateTranscriptFromAudio / translateTranscript
\*   modelTranscribe, modelTranslate  generateContent calls issued by them
\*   transcribeOutcome, translateOutcome, transcriptResult, translationResult
\*                                    how the promises they returned settled
NoRun ==
    [pc |-> "none", audioFile |-> NoFile, language |-> "", from |-> "Idle",
     transcriptResult |-> NullV, translateArg |-> NullV, translationResult |-> NullV,
     transcribeOutcome |-> "none", translateOutcome |-> "none",
     fnTranscribe |-> 0, fnTranslate |-> 0,
     modelTranscribe |-> 0, modelTranslate |-> 0]

\* The state of the workflow controller (spec 4.3) a request starts from.
ControllerState ==
    IF ~IsEmptyStr(error) THEN "Errored"
    ELSE IF lastRun.pc = "done" THEN "Done"
    ELSE "Idle"

\* The invocation as it suspends in generateTranscriptFromAudio(audioFile),
\* awaiting fileToGenerativePart (the FileReader).
NewRun ==
    [NoRun EXCEPT !.pc = "reading", !.audioFile = audioFile,
                  !.language = selectedLanguage, !.from = ControllerState,
                  !.transcribeOutcome = "pending", !.fnTranscribe = 1]

RemoveAt(s, i) == SubSeq(s, 1, i - 1) \o SubSeq(s, i + 1, Len(s))

\* handleProcessAudio returns.
Finish(i, r) ==
    /\ runs' = RemoveAt(runs, i)
    /\ lastRun' = [r EXCEPT !.pc = "done"]

\* Mutation of ResetStates: the previous translation is left in place.
ResetStatesKeepTranslation ==
    /\ isLoading' = TRUE
    /\ isTranslating' = FALSE
    /\ error' = <<>>
    /\ transcript' = NullV
    /\ UNCHANGED translation

\* // Reset states
ResetStates ==
    /\ isLoading' = TRUE
    /\ isTranslating' = FALSE
    /\ error' = <<>>
    /\ transcript' = NullV
    /\ translation' = NullV

\* Mutation of HandleProcessAudio: the `!audioFile` guard is missing.
HandleProcessAudioNoFileGuard ==
    IF selectedLanguage = ""
    THEN /\ error' = <<"Please select a language.">>
         /\ UNCHANGED <<audioFile, transcript, translation, isLoading, isTranslating,
                        selectedLanguage, selectedFile, runs, lastRun, unhandled,
                        saveResult>>
    ELSE /\ ResetStates
         /\ runs' = Append(runs, NewRun)
         /\ lastRun' = NoRun
         /\ UNCHANGED <<audioFile, selectedLanguage, selectedFile, unhandled, saveResult>>

\* Mutation of HandleProcessAudio: the state is reset before the guards.
HandleProcessAudioResetsFirst ==
    IF audioFile.null \/ selectedLanguage = ""
    THEN /\ error' = IF audioFile.null THEN <<"Please select an audio file.">>
                                       ELSE <<"Please select a language.">>
         /\ transcript' = NullV
         /\ translation' = NullV
         /\ UNCHANGED <<audioFile, isLoading, isTranslating, selectedLanguage,
                        selectedFile, runs, lastRun, unhandled, saveResult>>
    ELSE /\ ResetStates
         /\ runs' = Append(runs, NewRun)
         /\ lastRun' = NoRun
         /\ UNCHANGED <<audioFile, selectedLanguage, selectedFile, unhandled, saveResult>>

\* handleProcessAudio up to its first suspension.
HandleProcessAudio ==
    IF audioFile.null
    THEN /\ error' = <<"Please select an audio file.">>
         /\ UNCHANGED <<audioFile, transcript, translation, isLoading, isTranslating,
                        selectedLanguage, selectedFile, runs, lastRun, unhandled,
                        saveResult>>
    ELSE IF selectedLanguage = ""
    THEN /\ error' = <<"Please select a language.">>
         /\ UNCHANGED <<audioFile, transcript, translation, isLoading, isTranslating,
                        selectedLanguage, selectedFile, runs, lastRun, unhandled,
                        saveResult>>
    ELSE /\ ResetStates
         /\ runs' = Append(runs, NewRun)
         /\ lastRun' = NoRun
         /\ UNCHANGED <<audioFile, selectedLanguage, selectedFile, unhandled, saveResult>>

\* translateTranscript(t, language) called by the invocation r, up to its await
\* of generateContent, or to the rejection when building the prompt throws.
TranslateTranscriptCall(r, t) ==
    LET called == [r EXCEPT !.translateArg = t, !.fnTranslate = @ + 1]
    IN IF TranslatePromptThrows(t)
       THEN [called EXCEPT !.translateOutcome = "rejected"]
       ELSE [called EXCEPT !.pc = "translating", !.translateOutcome = "pending",
                           !.modelTranslate = @ + 1]

\* Mutation of TranscriptionFailed: the catch block issues the call again.
TranscriptionFailedRetry(i, r, m) ==
    /\ r.modelTranscribe < 3
    /\ runs' = [runs EXCEPT ![i] = [r EXCEPT !.pc = "transcribing",
                                             !.modelTranscribe = @ + 1]]
    /\ UNCHANGED <<audioFile, transcript, translation, isLoading, isTranslating, error,
                   selectedLanguage, selectedFile, lastRun, unhandled, saveResult>>

\* catch (err) of handleProcessAudio: transcription failed with message m.
TranscriptionFailed(i, r, m) ==
    /\ error' = OrElse(m, <<"An unknown error occurred during transcription.">>)
    /\ isLoading' = FALSE
    /\ Finish(i, r)
    /\ UNCHANGED <<audioFile, transcript, translation, isTranslating, selectedLanguage,
                   selectedFile, unhandled, saveResult>>

\* Mutation of TranslationFailed: no finally block, isTranslating stays set.
TranslationFailedNoFinally(i, r, m) ==
    /\ error' = OrElse(m, <<"An unknown translation error occurred.">>)
    /\ isTranslating' = TRUE
    /\ Finish(i, r)

\* The inner catch and finally of handleProcessAudio: translation failed with m.
TranslationFailed(i, r, m) ==
    /\ error' = OrElse(m, <<"An unknown translation error occurred.">>)
    /\ isTranslating' = FALSE
    /\ Finish(i, r)

\* Mutation of TranscriptionSucceeded: translateTranscript is given the
\* `transcript` hook value of the closure instead of transcriptResult.
TranscriptionSucceededStale(i, r, v) ==
    LET c == TranslateTranscriptCall(r, transcript)
    IN /\ transcript' = v
       /\ isLoading' = FALSE
       /\ IF c.translateOutcome = "rejected"
          THEN TranslationFailed(i, c, TranslateError(c.language))
          ELSE /\ isTranslating' = TRUE
               /\ runs' = [runs EXCEPT ![i] = c]
               /\ UNCHANGED <<error, lastRun>>
       /\ UNCHANGED <<audioFile, translation, selectedLanguage, selectedFile, unhandled,
                      saveResult>>

\* handleProcessAudio resumed with transcriptResult = v: setTranscript,
\* setIsLoading(false), setIsTranslating(true) and the call of
\* translateTranscript(transcriptResult, selectedLanguage) run in one task.
TranscriptionSucceeded(i, r, v) ==
    LET c == TranslateTranscriptCall(r, v)
    IN /\ transcript' = v
       /\ isLoading' = FALSE
       /\ IF c.translateOutcome = "rejected"
          THEN TranslationFailed(i, c, TranslateError(c.language))
          ELSE /\ isTranslating' = TRUE
               /\ runs' = [runs EXCEPT ![i] = c]
               /\ UNCHANGED <<error, lastRun>>
       /\ UNCHANGED <<audioFile, translation, selectedLanguage, selectedFile, unhandled,
                      saveResult>>

\* handleProcessAudio resumed from `await generateTranscriptFromAudio(audioFile)`.
AfterTranscribe(i, r, outcome) ==
    IF outcome.ok
    THEN TranscriptionSucceeded(i, r, outcome.value)
    ELSE TranscriptionFailed(i, r, outcome.message)

\* Mutation of AfterTranslate: only the first item of the answer is stored.
AfterTranslateFirstItemOnly(i, r, outcome) ==
    /\ IF outcome.ok
       THEN /\ translation' = IF outcome.value.kind = "array" /\ Len(outcome.value.items) > 1
                               THEN Arr(SubSeq(outcome.value.items, 1, 1))
                               ELSE outcome.value
            /\ isTranslating' = FALSE
            /\ Finish(i, r)
            /\ UNCHANGED error
       ELSE /\ TranslationFailed(i, r, outcome.message)
            /\ UNCHANGED translation
    /\ UNCHANGED <<audioFile, transcript, isLoading, selectedLanguage, selectedFile,
                   unhandled, saveResult>>

\* handleProcessAudio resumed from `await translateTranscript(...)`.
AfterTranslate(i, r, outcome) ==
    /\ IF outcome.ok
       THEN /\ translation' = outcome.value
            /\ isTranslating' = FALSE
            /\ Finish(i, r)
            /\ UNCHANGED error
       ELSE /\ TranslationFailed(i, r, outcome.message)
            /\ UNCHANGED translation
    /\ UNCHANGED <<audioFile, transcript, isLoading, selectedLanguage, selectedFile,
                   unhandled, saveResult>>

----------------------------------------------------------------------------
(* Steps of a suspended invocation *)

Settled(outcome) == IF outcome.ok THEN "resolved" ELSE "rejected"

\* fileToGenerativePart settles: on load, generateTranscriptFromAudio issues
\* the generateContent call; on a reader error it rejects.
FileRead(i, loaded) ==
    /\ runs[i].pc = "reading"
    /\ IF loaded
       THEN /\ runs' = [runs EXCEPT ![i].pc = "transcribing", ![i].modelTranscribe = @ + 1]
            /\ UNCHANGED <<audioFile, transcript, translation, isLoading, isTranslating,
                           error, selectedLanguage, selectedFile, lastRun, unhandled,
                           saveResult>>
       ELSE AfterTranscribe(i, [runs[i] EXCEPT !.transcribeOutcome = "rejected"],
                            Rejected(GenerateTranscriptError))

\* The transcription generateContent call settles with resp.
TranscribeSettles(i, resp) ==
    /\ runs[i].pc = "transcribing"
    /\ LET outcome == GenerateTranscriptReturn(resp)
       IN AfterTranscribe(i, [runs[i] EXCEPT !.transcribeOutcome = Settled(outcome),
                                             !.transcriptResult = outcome.value],
                          outcome)

\* The translation generateContent call settles with resp.
TranslateSettles(i, resp) ==
    /\ runs[i].pc = "translating"
    /\ LET outcome == TranslateReturn(resp, runs[i].language)
       IN AfterTranslate(i, [runs[i] EXCEPT !.translateOutcome = Settled(outcome),
                                            !.translationResult = outcome.value],
                         outcome)

----------------------------------------------------------------------------
(* components/AudioUploader.tsx *)

AudioPrefix == <<"a", "u", "d", "i", "o", "/">>

\* Mutation of HandleFileChange: the media type is not looked at.
HandleFileChangeAnyType(files) ==
    IF Len(files) > 0
    THEN /\ selectedFile' = files[1]
         /\ audioFile' = files[1]
    ELSE UNCHANGED <<selectedFile, audioFile>>

\* handleFileChange(files); onFileSelect is App's setAudioFile.
HandleFileChange(files) ==
    IF Len(files) > 0 /\ StartsWith(files[1].type, AudioPrefix)
    THEN /\ selectedFile' = files[1]
         /\ audioFile' = files[1]
    ELSE UNCHANGED <<selectedFile, audioFile>>

\* onFileInputChange: the change event of <input type="file" disabled={disabled}>
OnFileInputChange(files) ==
    /\ ~Disabled
    /\ HandleFileChange(files)
    /\ UNCHANGED <<transcript, translation, isLoading, isTranslating, error,
                   selectedLanguage, runs, lastRun, unhandled, saveResult>>

\* onDrop: the label receives the drop whether or not the uploader is disabled
OnDrop(files) ==
    /\ IF ~Disabled
       THEN HandleFileChange(files)
       ELSE UNCHANGED <<selectedFile, audioFile>>
    /\ UNCHANGED <<transcript, translation, isLoading, isTranslating, error,
                   selectedLanguage, runs, lastRun, unhandled, saveResult>>

\* clearFile, from the button rendered while a file is selected
ClearFile ==
    /\ ~selectedFile.null
    /\ ~Disabled
    /\ selectedFile' = NoFile
    /\ audioFile' = NoFile
    /\ UNCHANGED <<transcript, translation, isLoading, isTranslating, error,
                   selectedLanguage, runs, lastRun, unhandled, saveResult>>

----------------------------------------------------------------------------
(* App: the language selector and the export *)

\* onChange of <select disabled={isLoading || isTranslating}>
SetSelectedLanguage(l) ==
    /\ ~Disabled
    /\ selectedLanguage' = l
    /\ UNCHANGED <<audioFile, transcript, translation, isLoading, isTranslating, error,
                   selectedFile, runs, lastRun, unhandled, saveResult>>

\* Mutation of HandleSaveResult: the guard tests `transcript`, not `translation`.
HandleSaveResultWrongGuard ==
    IF Falsy(transcript) \/ audioFile.null THEN "noop"
    ELSE IF translation.kind # "array" THEN "threw"
    ELSE "pdf"

\* App.tsx handleSave: "noop" is the early return, "threw" a TypeError of
\* translation.map on a value that is no array, "pdf" is doc.save(fileName).
HandleSaveResult ==
    IF Falsy(translation) \/ audioFile.null THEN "noop"
    ELSE IF translation.kind # "array" THEN "threw"
    ELSE "pdf"

HandleSave ==
    /\ saveResult' = HandleSaveResult
    /\ UNCHANGED <<audioFile, transcript, translation, isLoading, isTranslating, error,
                   selectedLanguage, selectedFile, runs, lastRun, unhandled>>

\* part_001 handleSave: "txt" is the click on the download link.
HandleSaveTextResult ==
    IF Falsy(transcript) \/ Falsy(translation) THEN "noop"
    ELSE IF transcript.kind # "array" \/ translation.kind # "array" THEN "threw"
    ELSE "txt"

HandleSaveText ==
    /\ saveResult' = HandleSaveTextResult
    /\ UNCHANGED <<audioFile, transcript, translation, isLoading, isTranslating, error,
                   selectedLanguage, selectedFile, runs, lastRun, unhandled>>

----------------------------------------------------------------------------
(* The application driven through its rendered controls *)

Init ==
    /\ audioFile = NoFile
    /\ transcript = NullV
    /\ translation = NullV
    /\ isLoading = FALSE
    /\ isTranslating = FALSE
    /\ error = <<>>
    /\ selectedLanguage = LANGUAGES[1]
    /\ selectedFile = NoFile
    /\ runs = <<>>
    /\ lastRun = NoRun
    /\ unhandled = FALSE
    /\ saveResult = "none"

ClickGenerate ==
    /\ ~GenerateDisabled
    /\ Len(runs) < MaxRuns
    /\ HandleProcessAudio

ClickSave ==
    /\ SaveShown
    /\ ~SaveDisabled
    /\ HandleSave

ClickSaveText ==
    /\ SaveTextShown
    /\ ~SaveTextDisabled
    /\ HandleSaveText

FileReadStep == \E i \in 1..Len(runs), loaded \in BOOLEAN : FileRead(i, loaded)

TranscribeStep == \E i \in 1..Len(runs), resp \in TranscribeResponses : TranscribeSettles(i, resp)

TranslateStep == \E i \in 1..Len(runs), resp \in TranslateResponses : TranslateSettles(i, resp)

InputChange == \E files \in FileLists : OnFileInputChange(files)

Drop == \E files \in FileLists : OnDrop(files)

SelectLanguage == \E l \in LanguageChoices : SetSelectedLanguage(l)

Next ==
    \/ InputChange
    \/ Drop
    \/ ClearFile
    \/ SelectLanguage
    \/ ClickGenerate
    \/ FileReadStep
    \/ TranscribeStep
    \/ TranslateStep
    \/ ClickSave
    \/ ClickSaveText

Spec == Init /\ [][Next]_vars

\* Every FileReader and every generateContent call eventually settles.
FairSpec ==
    /\ Spec
    /\ WF_vars(FileReadStep)
    /\ WF_vars(TranscribeStep)
    /\ WF_vars(TranslateStep)

----------------------------------------------------------------------------
(* The handlers invoked directly, whatever the form holds: the generation   *)
(* action outside a busy interval, the export action at any time.           *)

InitHandler ==
    /\ audioFile \in AudioFiles \cup {NoFile}
    /\ selectedFile = audioFile
    /\ selectedLanguage \in LanguageChoices \cup {""}
    /\ transcript = NullV
    /\ translation = NullV
    /\ isLoading = FALSE
    /\ isTranslating = FALSE
    /\ error = <<>>
    /\ runs = <<>>
    /\ lastRun = NoRun
    /\ unhandled = FALSE
    /\ saveResult = "none"

InvokeGenerate ==
    /\ ~Disabled
    /\ Len(runs) < MaxRuns
    /\ HandleProcessAudio

InvokeSave == HandleSave

InvokeSaveText == HandleSaveText

NextHandler ==
    \/ Next
    \/ InvokeGenerate
    \/ InvokeSave
    \/ InvokeSaveText

SpecHandler == InitHandler /\ [][NextHandler]_vars

----------------------------------------------------------------------------
(* Properties *)

\* Every invocation of handleProcessAudio the state keeps a record of.
AllRuns == {runs[i] : i \in 1..Len(runs)} \cup {lastRun}

\* C1: in every run, translateTranscript is called only once
\* generateTranscriptFromAudio has resolved in that run, and with exactly the
\* value it resolved to; a run whose transcription rejected (or is still
\* pending) has made no call of translateTranscript.
C1_TranslateOnlyAfterTranscribe ==
    \A r \in AllRuns :
        /\ r.fnTranslate > 0 =>
              /\ r.transcribeOutcome = "resolved"
              /\ r.translateArg = r.transcriptResult
        /\ r.transcribeOutcome \in {"pending", "rejected"} => r.fnTranslate = 0

\* A finished run whose translation was requested for a two-item transcript.
C1_Witness ==
    /\ lastRun.pc = "done"
    /\ lastRun.fnTranslate = 1
    /\ lastRun.translateArg = Arr(<<I1, I2>>)
    /\ lastRun.translateOutcome = "resolved"

\* C2: a generation request that passed its guards has set the source
\* transcript and the translation to null and the error to '' before its
\* transcription generateContent call is issued: while the run awaits the
\* file read no call has been issued and the three are clear, and they are
\* still clear while the call is in flight.
C2_StartClearsBeforeCall ==
    \A i \in 1..Len(runs) :
        /\ runs[i].pc = "reading" => runs[i].modelTranscribe = 0
        /\ runs[i].pc \in {"reading", "transcribing"} =>
              /\ Falsy(transcript)
              /\ Falsy(translation)
              /\ IsEmptyStr(error)

\* A request started from Done, its call not yet issued.
C2_Witness ==
    \E i \in 1..Len(runs) :
        /\ runs[i].pc = "reading"
        /\ runs[i].from = "Done"
        /\ runs[i].modelTranscribe = 0

InFlight(pc) == {i \in 1..Len(runs) : runs[i].pc = pc}

\* C3: while a generation request is active, also once transcription has
\* ended and translation is under way, isLoading or isTranslating is true and
\* the generate button is disabled; at most one request is active, with at
\* most one transcription call and one translation call in flight.
C3_BusyWhileActive ==
    /\ Len(runs) <= 1
    /\ Len(runs) > 0 => (isLoading \/ isTranslating) /\ GenerateDisabled
    /\ Cardinality(InFlight("transcribing")) <= 1
    /\ Cardinality(InFlight("translating")) <= 1

\* The translate stage under way for a selected file: isLoading is false again.
C3_Witness ==
    /\ Len(runs) = 1
    /\ runs[1].pc = "translating"
    /\ ~isLoading
    /\ isTranslating
    /\ ~audioFile.null

\* C4: once generateTranscriptFromAudio has resolved in a run, the value it
\* resolved to is the stored source transcript and is present, until the next
\* request starts (which discards the record of the run); after a failed
\* translation the transcript is present, the translation absent and the
\* error message non-empty.
C4_TranscriptKept ==
    \A r \in AllRuns :
        /\ r.transcribeOutcome = "resolved" =>
              /\ transcript = r.transcriptResult
              /\ Present(transcript)
        /\ (r.pc = "done" /\ r.translateOutcome = "rejected") =>
              /\ Present(transcript)
              /\ Falsy(translation)
              /\ ~IsEmptyStr(error)

\* C5: handleProcessAudio invoked with no audio file, or with an empty
\* language, issues no call (no invocation is suspended or advanced), turns
\* neither busy flag on, and sets a validation message: 'Please select an
\* audio file.' when the file is missing.
C5_GuardsRejectWithoutCall ==
    [][((audioFile.null \/ selectedLanguage = "") /\ HandleProcessAudio) =>
          /\ runs' = runs
          /\ lastRun' = lastRun
          /\ isLoading' => isLoading
          /\ isTranslating' => isTranslating
          /\ ~IsEmptyStr(error')
          /\ audioFile.null => error' = <<"Please select an audio file.">>]_vars

\* The generation action was invoked with no file selected.
C5_Witness ==
    /\ audioFile.null
    /\ error = <<"Please select an audio file.">>
    /\ runs = <<>>
    /\ lastRun.pc = "none"
    /\ ~isLoading
    /\ ~isTranslating

BothPresent == Present(transcript) /\ Present(translation)

\* C6: handleSave (either version) produces an artifact only if the source
\* transcript and the translation are both present; where one of them is
\* absent the export button is hidden or disabled and handleSave returns
\* without doing anything.
C6_ExportNeedsBoth ==
    /\ [](~BothPresent =>
            /\ ~SaveShown \/ SaveDisabled
            /\ ~SaveTextShown \/ SaveTextDisabled)
    /\ [][(HandleSave \/ HandleSaveText) =>
            /\ saveResult' \in {"pdf", "txt"} => BothPresent
            /\ ~BothPresent => saveResult' = "noop"]_vars

\* An export was produced, with both transcripts present.
C6_Witness ==
    /\ saveResult = "pdf"
    /\ BothPresent
    /\ ~audioFile.null

\* C7: with every file read and every generateContent call settling, a
\* started run ends, and with both busy flags false; a run in which a stage
\* rejected has left a non-empty error message, and no exception has left
\* handleProcessAudio.
C7_RunsEndAndReport ==
    /\ (Len(runs) > 0) ~> (runs = <<>> /\ ~isLoading /\ ~isTranslating)
    /\ [](/\ ~unhandled
          /\ (runs = <<>> /\ lastRun.pc = "done") => (~isLoading /\ ~isTranslating)
          /\ (lastRun.pc = "done" /\ "rejected" \in {lastRun.transcribeOutcome,
                                                     lastRun.translateOutcome})
                => ~IsEmptyStr(error))

\* A run whose translation call rejected has ended.
C7_Witness ==
    /\ runs = <<>>
    /\ lastRun.pc = "done"
    /\ lastRun.modelTranslate = 1
    /\ lastRun.translateOutcome = "rejected"
    /\ ~isLoading
    /\ ~isTranslating
    /\ ~IsEmptyStr(error)

\* C8: a run issues at most one transcription and one translation
\* generateContent call; a run in which a call failed has ended, without a
\* further call; and only a click on the generate button starts a run.
C8_NoRetry ==
    /\ [](\A r \in AllRuns :
            /\ r.fnTranscribe <= 1 /\ r.modelTranscribe <= 1
            /\ r.fnTranslate <= 1 /\ r.modelTranslate <= 1
            /\ r.transcribeOutcome = "rejected" => (r.pc = "done" /\ r.modelTranslate = 0)
            /\ r.translateOutcome = "rejected" => r.pc = "done")
    /\ [][Len(runs') > Len(runs) => ClickGenerate]_vars

\* A run ended by a rejected transcription call: one call, none for translation.
C8_Witness ==
    /\ lastRun.pc = "done"
    /\ lastRun.transcribeOutcome = "rejected"
    /\ lastRun.modelTranscribe = 1
    /\ lastRun.modelTranslate = 0

\* An array whose every element has a non-empty string timestamp and text.
ValidItems(v) ==
    /\ v.kind = "array"
    /\ \A k \in 1..Len(v.items) :
          /\ v.items[k].timestamp \notin {Absent, ""}
          /\ v.items[k].text \notin {Absent, ""}

\* C9: a gateway function resolves only with an array whose every element has
\* a non-empty timestamp and a non-empty text; every other parsed value makes
\* it reject.
C9_ResolvesOnlyValid ==
    \A r \in AllRuns :
        /\ r.transcribeOutcome = "resolved" => ValidItems(r.transcriptResult)
        /\ r.translateOutcome = "resolved" => ValidItems(r.translationResult)

\* C10: translateTranscript called with an empty array rejects and issues no
\* generateContent call.
C10_EmptyTranscriptNoCall ==
    \A r \in AllRuns :
        (r.fnTranslate > 0 /\ r.translateArg = Arr(<<>>)) =>
            /\ r.modelTranslate = 0
            /\ r.translateOutcome = "rejected"

\* Two arrays of the same length whose timestamps agree at every index.
SameTimestamps(a, b) ==
    /\ a.kind = "array"
    /\ b.kind = "array"
    /\ Len(a.items) = Len(b.items)
    /\ \A k \in 1..Len(a.items) : a.items[k].timestamp = b.items[k].timestamp

\* C11 as claimed: a stored translation (an array) has as many items as the
\* source transcript, with the source's timestamp at every index.
C11_TranslationAligned ==
    (lastRun.translateOutcome = "resolved" /\ translation.kind = "array") =>
        SameTimestamps(translation, transcript)

\* C11 as amended: the controller stores the answer of the translate call
\* unchanged, next to the source the call was made on; the stored translation
\* has the source's length and timestamps whenever the answer has them.
C11_StoredAsAnswered ==
    lastRun.translateOutcome = "resolved" =>
        /\ translation = lastRun.translationResult
        /\ transcript = lastRun.translateArg
        /\ SameTimestamps(lastRun.translationResult, lastRun.translateArg) =>
              SameTimestamps(translation, transcript)

\* A two-item source with the two-item answer that keeps its timestamps.
C11_Witness ==
    /\ lastRun.translateOutcome = "resolved"
    /\ transcript = Arr(<<I1, I2>>)
    /\ translation = Arr(<<X1, X2>>)

\* C12: a translation that is present stands next to a present source
\* transcript, and it is the answer of the translate call that the run that
\* returned last made on exactly that transcript; no other run is under way.
C12_TranslationOfShownSource ==
    Present(translation) =>
        /\ Present(transcript)
        /\ runs = <<>>
        /\ lastRun.pc = "done"
        /\ lastRun.translateOutcome = "resolved"
        /\ lastRun.translateArg = transcript
        /\ lastRun.transcriptResult = transcript
        /\ lastRun.translationResult = translation

\* The translation of a run that was started from Done.
C12_Witness ==
    /\ Present(translation)
    /\ lastRun.from = "Done"
    /\ transcript = Arr(<<I1>>)
    /\ translation = Arr(<<X1>>)

\* getTranslationTitle, for the language the component state holds.
GetTranslationTitle(language) ==
    IF language = "Malayalam" THEN <<"Translation (", "Manglish", ")">>
    ELSE IF language = "Tamil (Tanglish)" THEN <<"Translation (", "Tanglish", ")">>
    ELSE IF language = "Tamil (Script)" THEN <<"Translation (", "Tamil Script", ")">>
    ELSE <<"Translation (", language, ")">>

\* handleSave: const isTamilScript = selectedLanguage === 'Tamil (Script)'.
IsTamilScript(language) == language = "Tamil (Script)"

PhaseIdle == ~isLoading /\ ~isTranslating
PhaseTranscribing ==
    isLoading /\ ~isTranslating /\ Falsy(transcript) /\ Falsy(translation)
PhaseTranslating ==
    isTranslating /\ ~isLoading /\ Present(transcript) /\ Falsy(translation)

\* C17, first part: every state is in exactly one of the three phases (both
\* flags off; transcribing with nothing shown; translating with the source
\* shown and no translation), so the two flags are never on together.
C17_OnePhase ==
    /\ PhaseIdle \/ PhaseTranscribing \/ PhaseTranslating
    /\ ~(PhaseIdle /\ PhaseTranscribing)
    /\ ~(PhaseIdle /\ PhaseTranslating)
    /\ ~(PhaseTranscribing /\ PhaseTranslating)
    /\ ~(isLoading /\ isTranslating)

\* C17: every state is in exactly one phase, and a run whose two calls both
\* resolved leaves the source present, the translation present and the error
\* empty.
C17_PhasesAndSuccess ==
    /\ C17_OnePhase
    /\ (lastRun.pc = "done" /\ lastRun.transcribeOutcome = "resolved"
           /\ lastRun.translateOutcome = "resolved") =>
          /\ Present(transcript)
          /\ Present(translation)
          /\ IsEmptyStr(error)

\* C18: while a translation is present, the title and the font choice of the
\* panel and of the export are those of the language the translation was
\* requested in.
C18_ExportLanguageIsRunLanguage ==
    Present(translation) =>
        /\ GetTranslationTitle(selectedLanguage) = GetTranslationTitle(lastRun.language)
        /\ IsTamilScript(selectedLanguage) = IsTamilScript(lastRun.language)

\* C19: where the Save button is shown and enabled, handleSave does not
\* return without producing anything.
C19_EnabledSaveProduces ==
    (SaveShown /\ ~SaveDisabled) => HandleSaveResult # "noop"

\* C20: handleProcessAudio rejected by a guard leaves both transcripts, both
\* busy flags, the selected file and the selected language as they were.
C20_RejectedChangesOnlyError ==
    [][((audioFile.null \/ selectedLanguage = "") /\ HandleProcessAudio) =>
          /\ ~IsEmptyStr(error')
          /\ UNCHANGED <<transcript, translation, isLoading, isTranslating,
                         audioFile, selectedFile, selectedLanguage>>]_vars

\* The generation action was rejected in Done, after the file was cleared:
\* the finished run's transcripts are still shown.
C20_Witness ==
    /\ audioFile.null
    /\ error = <<"Please select an audio file.">>
    /\ lastRun.pc = "done"
    /\ Present(transcript)
    /\ Present(translation)

\* translateTranscript: targetLanguageInstruction after the language branches.
TargetLanguageInstruction(language) ==
    IF language = "Malayalam"
    THEN "Manglish (Malayalam written phonetically using English letters)"
    ELSE IF language = "Tamil (Tanglish)"
    THEN "Tanglish (conversational Tamil written phonetically using English letters)"
    ELSE IF language = "Tamil (Script)"
    THEN "Tamil language using the Tamil script"
    ELSE language

\* translateTranscript: specialInstructions after the language branches, one
\* element per bullet.
SpecialInstructions(language) ==
    IF language = "Tamil (Tanglish)"
    THEN << "Translate into a natural, conversational style.",
            "The output text must be written phonetically using English letters (Tanglish).",
            "Do NOT translate common technical English words (e.g., AI, podcast, software, database). Keep them in English." >>
    ELSE IF language = "Tamil (Script)"
    THEN << "Translate into a natural, conversational Tamil.",
            "The output text MUST be in the Tamil script." >>
    ELSE << >>

\* translateTranscript: the instructions of the prompt, in order.
TranslatePrompt(language) ==
    << "You are an expert multilingual translator. Your task is to translate the provided transcript into",
       TargetLanguageInstruction(language),
       "Translate the text portion of each line into natural and fluent",
       TargetLanguageInstruction(language),
       "You MUST preserve these timestamps exactly as they are in your translated output.",
       "The output must be a valid JSON array of objects" >>
    \o SpecialInstructions(language)

\* The three selections the catalog offers for Latin-script output.
PhoneticSelections == {"Hinglish", "Malayalam", "Tamil (Tanglish)"}

\* The pieces of a prompt that tell the model to write phonetically in Latin
\* script, to keep English loanwords, and to use a conversational tone.
PhoneticPieces ==
    { "Manglish (Malayalam written phonetically using English letters)",
      "Tanglish (conversational Tamil written phonetically using English letters)",
      "The output text must be written phonetically using English letters (Tanglish)." }
LoanwordPieces ==
    { "Do NOT translate common technical English words (e.g., AI, podcast, software, database). Keep them in English." }
ConversationalPieces ==
    { "Tanglish (conversational Tamil written phonetically using English letters)",
      "Translate into a natural, conversational style.",
      "Translate into a natural, conversational Tamil." }

Mentions(prompt, pieces) == \E k \in 1..Len(prompt) : prompt[k] \in pieces

\* C14: a translate call made for one of the three phonetic selections is
\* made with a prompt that carries all three instructions: Latin script
\* written phonetically, English loanwords kept, conversational tone.
C14_PhoneticPromptComplete ==
    \A r \in AllRuns :
        (r.fnTranslate > 0 /\ r.language \in PhoneticSelections /\ r.language \in LanguageIds) =>
            /\ Mentions(TranslatePrompt(r.language), PhoneticPieces)
            /\ Mentions(TranslatePrompt(r.language), LoanwordPieces)
            /\ Mentions(TranslatePrompt(r.language), ConversationalPieces)

\* The language catalog of the version that exports text: one 'Tamil' entry
\* in place of the two Tamil variants.
TextLanguageIds == (LanguageIds \ {"Tamil (Tanglish)", "Tamil (Script)"}) \cup {"Tamil"}

\* The characters of a language identifier of either catalog.
IdChars(language) ==
    IF language = "Arabic" THEN <<"A", "r", "a", "b", "i", "c">> ELSE
    IF language = "Bengali" THEN <<"B", "e", "n", "g", "a", "l", "i">> ELSE
    IF language = "Chinese (Simplified)" THEN <<"C", "h", "i", "n", "e", "s", "e", " ", "(", "S", "i", "m", "p", "l", "i", "f", "i", "e", "d", ")">> ELSE
    IF language = "Chinese (Traditional)" THEN <<"C", "h", "i", "n", "e", "s", "e", " ", "(", "T", "r", "a", "d", "i", "t", "i", "o", "n", "a", "l", ")">> ELSE
    IF language = "Czech" THEN <<"C", "z", "e", "c", "h">> ELSE
    IF language = "Danish" THEN <<"D", "a", "n", "i", "s", "h">> ELSE
    IF language = "Dutch" THEN <<"D", "u", "t", "c", "h">> ELSE
    IF language = "English" THEN <<"E", "n", "g", "l", "i", "s", "h">> ELSE
    IF language = "Finnish" THEN <<"F", "i", "n", "n", "i", "s", "h">> ELSE
    IF language = "French" THEN <<"F", "r", "e", "n", "c", "h">> ELSE
    IF language = "German" THEN <<"G", "e", "r", "m", "a", "n">> ELSE
    IF language = "Greek" THEN <<"G", "r", "e", "e", "k">> ELSE
    IF language = "Gujarati" THEN <<"G", "u", "j", "a", "r", "a", "t", "i">> ELSE
    IF language = "Hebrew" THEN <<"H", "e", "b", "r", "e", "w">> ELSE
    IF language = "Hindi" THEN <<"H", "i", "n", "d", "i">> ELSE
    IF language = "Hinglish" THEN <<"H", "i", "n", "g", "l", "i", "s", "h">> ELSE
    IF language = "Hungarian" THEN <<"H", "u", "n", "g", "a", "r", "i", "a", "n">> ELSE
    IF language = "Indonesian" THEN <<"I", "n", "d", "o", "n", "e", "s", "i", "a", "n">> ELSE
    IF language = "Italian" THEN <<"I", "t", "a", "l", "i", "a", "n">> ELSE
    IF language = "Japanese" THEN <<"J", "a", "p", "a", "n", "e", "s", "e">> ELSE
    IF language = "Kannada" THEN <<"K", "a", "n", "n", "a", "d", "a">> ELSE
    IF language = "Korean" THEN <<"K", "o", "r", "e", "a", "n">> ELSE
    IF language = "Malayalam" THEN <<"M", "a", "l", "a", "y", "a", "l", "a", "m">> ELSE
    IF language = "Marathi" THEN <<"M", "a", "r", "a", "t", "h", "i">> ELSE
    IF language = "Norwegian" THEN <<"N", "o", "r", "w", "e", "g", "i", "a", "n">> ELSE
    IF language = "Persian" THEN <<"P", "e", "r", "s", "i", "a", "n">> ELSE
    IF language = "Polish" THEN <<"P", "o", "l", "i", "s", "h">> ELSE
    IF language = "Portuguese" THEN <<"P", "o", "r", "t", "u", "g", "u", "e", "s", "e">> ELSE
    IF language = "Punjabi" THEN <<"P", "u", "n", "j", "a", "b", "i">> ELSE
    IF language = "Romanian" THEN <<"R", "o", "m", "a", "n", "i", "a", "n">> ELSE
    IF language = "Russian" THEN <<"R", "u", "s", "s", "i", "a", "n">> ELSE
    IF language = "Slovak" THEN <<"S", "l", "o", "v", "a", "k">> ELSE
    IF language = "Spanish" THEN <<"S", "p", "a", "n", "i", "s", "h">> ELSE
    IF language = "Swedish" THEN <<"S", "w", "e", "d", "i", "s", "h">> ELSE
    IF language = "Tamil (Tanglish)" THEN <<"T", "a", "m", "i", "l", " ", "(", "T", "a", "n", "g", "l", "i", "s", "h", ")">> ELSE
    IF language = "Tamil (Script)" THEN <<"T", "a", "m", "i", "l", " ", "(", "S", "c", "r", "i", "p", "t", ")">> ELSE
    IF language = "Telugu" THEN <<"T", "e", "l", "u", "g", "u">> ELSE
    IF language = "Thai" THEN <<"T", "h", "a", "i">> ELSE
    IF language = "Turkish" THEN <<"T", "u", "r", "k", "i", "s", "h">> ELSE
    IF language = "Ukrainian" THEN <<"U", "k", "r", "a", "i", "n", "i", "a", "n">> ELSE
    IF language = "Urdu" THEN <<"U", "r", "d", "u">> ELSE
    IF language = "Vietnamese" THEN <<"V", "i", "e", "t", "n", "a", "m", "e", "s", "e">> ELSE
    IF language = "Tamil" THEN <<"T", "a", "m", "i", "l">> ELSE
    <<>>

LowerLetters ==
    <<
      "a", "b", "c", "d", "e", "f", "g", "h", "i", "j", "k", "l", "m", "n", "o",
      "p", "q", "r", "s", "t", "u", "v", "w", "x", "y", "z"
    >>
UpperLetters ==
    <<
      "A", "B", "C", "D", "E", "F", "G", "H", "I", "J", "K", "L", "M", "N", "O",
      "P", "Q", "R", "S", "T", "U", "V", "W", "X", "Y", "Z"
    >>
Digits ==
    {
      "0", "1", "2", "3", "4", "5", "6", "7", "8", "9"
    }

Range(f) == {f[k] : k \in DOMAIN f}

\* The characters /[a-z0-9]/i matches.
AlnumChars == Range(LowerLetters) \cup Range(UpperLetters) \cup Digits

\* String.prototype.toLowerCase on one character.
ToLowerCase(c) ==
    IF c \in Range(UpperLetters)
    THEN LowerLetters[CHOOSE k \in DOMAIN UpperLetters : UpperLetters[k] = c]
    ELSE c

\* selectedLanguage.replace(/[^a-z0-9]/gi, '_')
ReplaceNonAlnum(cs) ==
    [k \in 1..Len(cs) |-> IF cs[k] \in AlnumChars THEN cs[k] ELSE "_"]

\* Mutation of SafeLanguage: the identifier is not lowercased.
SafeLanguageNoLowerCase(language) == ReplaceNonAlnum(IdChars(language))

\* const safeLanguage = selectedLanguage.replace(/[^a-z0-9]/gi, '_').toLowerCase()
SafeLanguage(language) ==
    LET replaced == ReplaceNonAlnum(IdChars(language))
    IN [k \in 1..Len(replaced) |-> ToLowerCase(replaced[k])]

\* const fileName = `transcript-${safeLanguage}.txt`
TextFileName(language) == <<"transcript-">> \o SafeLanguage(language) \o <<".txt">>

\* Bound on the number of items of an exported translation.
MaxLines == 75

\* handleSave: the layout values of the PDF.
Margin == 15
LineHeight == 7
TitleSkip == 15
TitleFontSize == 16
BodyFontSize == 10

\* doc.internal.pageSize.getHeight() of `new jsPDF()`: a4 portrait, in mm.
PageHeight == 297

\* new jsPDF(): the built-in font, page 1, nothing drawn.
NewJsPDF ==
    [fonts |-> {<<"helvetica", "normal">>, <<"helvetica", "bold">>},
     font |-> "helvetica", style |-> "normal", size |-> TitleFontSize,
     page |-> 1, ops |-> <<>>]

\* doc.addFont(file, name, style)
AddFont(doc, name, style) == [doc EXCEPT !.fonts = @ \cup {<<name, style>>}]

\* doc.setFontSize(size)
SetFontSize(doc, size) == [doc EXCEPT !.size = size]

\* doc.text(str, x, y): drawn on the current page with the current font.
DocText(doc, str, x, y) ==
    [doc EXCEPT !.ops = Append(@, [op |-> "text", str |-> str, x |-> x, y |-> y,
                                   page |-> doc.page, font |-> doc.font,
                                   style |-> doc.style, size |-> doc.size])]

\* doc.addPage()
AddPage(doc) ==
    [doc EXCEPT !.page = @ + 1,
                !.ops = Append(@, [op |-> "addPage", str |-> <<>>, x |-> 0, y |-> 0,
                                   page |-> doc.page + 1, font |-> doc.font,
                                   style |-> doc.style, size |-> doc.size])]

\* Mutation of SetDocFont: the Tamil font is selected for the normal style only.
SetDocFontNormalOnly(doc, isTamilScript, style) ==
    [doc EXCEPT !.font = IF isTamilScript /\ style = "normal" THEN "NotoSansTamil"
                         ELSE "helvetica",
                !.style = style]

\* handleSave: setDocFont(style)
SetDocFont(doc, isTamilScript, style) ==
    [doc EXCEPT !.font = IF isTamilScript THEN "NotoSansTamil" ELSE "helvetica",
                !.style = style]

\* translation.map(item => `[${item.timestamp}] ${item.text}`), the lines
\* that join('\n') separates.
FullText(items) ==
    [k \in 1..Len(items) |-> <<"[", items[k].timestamp, "] ", items[k].text>>]

\* doc.splitTextToSize(fullText, pageWidth - margin * 2), for lines narrower
\* than the page: the lines of fullText; the empty text is one empty line.
SplitTextToSize(fullText) == IF fullText = <<>> THEN << <<>> >> ELSE fullText

\* Mutation of DrawLine: a line that ends exactly at the bottom margin is
\* moved to a new page.
DrawLineBreaksEarly(doc, y, line, isTamilScript) ==
    LET break == y + LineHeight >= PageHeight - Margin
        d == IF break
             THEN SetFontSize(SetDocFont(AddPage(doc), isTamilScript, "normal"),
                              BodyFontSize)
             ELSE doc
        y1 == IF break THEN Margin ELSE y
    IN [doc |-> DocText(d, line, Margin, y1), y |-> y1 + LineHeight]

\* handleSave: the body of splitText.forEach.
DrawLine(doc, y, line, isTamilScript) ==
    LET break == y + LineHeight > PageHeight - Margin
        d == IF break
             THEN SetFontSize(SetDocFont(AddPage(doc), isTamilScript, "normal"),
                              BodyFontSize)
             ELSE doc
        y1 == IF break THEN Margin ELSE y
    IN [doc |-> DocText(d, line, Margin, y1), y |-> y1 + LineHeight]

\* handleSave: splitText.forEach over the lines lo..hi, in their order: the
\* first half of the range, then the second half from the document and the
\* cursor the first half left (a cursor that is never above the margin).
RECURSIVE DrawLines(_, _, _, _, _, _)
DrawLines(doc, y, lines, lo, hi, isTamilScript) ==
    IF lo > hi THEN [doc |-> doc, y |-> y]
    ELSE IF lo = hi THEN DrawLine(doc, y, lines[lo], isTamilScript)
    ELSE LET mid == (lo + hi) \div 2
             first == DrawLines(doc, y, lines, lo, mid, isTamilScript)
         IN CASE first.y >= Margin ->
                   DrawLines(first.doc, first.y, lines, mid + 1, hi, isTamilScript)

\* handleSave: the document handed to doc.save.
PdfDocument(items, language) ==
    LET isTamilScript == IsTamilScript(language)
        created == IF isTamilScript
                   THEN AddFont(AddFont(NewJsPDF, "NotoSansTamil", "normal"),
                                "NotoSansTamil", "bold")
                   ELSE NewJsPDF
        titled == DocText(SetFontSize(SetDocFont(created, isTamilScript, "bold"),
                                      TitleFontSize),
                          GetTranslationTitle(language), Margin, Margin)
        body == SetFontSize(SetDocFont(titled, isTamilScript, "normal"), BodyFontSize)
        splitText == SplitTextToSize(FullText(items))
    IN DrawLines(body, Margin + TitleSkip, splitText, 1, Len(splitText),
                 isTamilScript).doc

\* The document handleSave builds from the component state.
SavedPdf == PdfDocument(translation.items, selectedLanguage)

\* Transcripts of n items, as a run leaves them.
SourceItems(n) == [k \in 1..n |-> Item(ToString(k), "Hello")]
TranslatedItems(n) == [k \in 1..n |-> Item(ToString(k), "Hola")]

\* The lengths of the exported translations: none, short ones, and the
\* lengths around the first and the second page break.
ExportLengths == {0, 1, 2, 36, 37, 74, MaxLines}

\* A run that returned with both calls resolved.
DoneRun(file, language, t, x) ==
    [NoRun EXCEPT !.pc = "done", !.audioFile = file, !.language = language,
                  !.transcriptResult = t, !.translateArg = t, !.translationResult = x,
                  !.transcribeOutcome = "resolved", !.translateOutcome = "resolved",
                  !.fnTranscribe = 1, !.fnTranslate = 1,
                  !.modelTranscribe = 1, !.modelTranslate = 1]

\* The exports, from every Done state of a run on a catalog language.
InitExport ==
    /\ audioFile \in AudioFiles
    /\ selectedFile = audioFile
    /\ selectedLanguage \in LanguageIds \cup TextLanguageIds
    /\ \E n \in ExportLengths :
          /\ transcript = Arr(SourceItems(n))
          /\ translation = Arr(TranslatedItems(n))
    /\ isLoading = FALSE
    /\ isTranslating = FALSE
    /\ error = <<>>
    /\ runs = <<>>
    /\ lastRun = DoneRun(audioFile, selectedLanguage, transcript, translation)
    /\ unhandled = FALSE
    /\ saveResult = "none"

NextExport ==
    \/ ClickSave
    \/ ClickSaveText

SpecExport == InitExport /\ [][NextExport]_vars

TextOps(doc) == SelectSeq(doc.ops, LAMBDA o : o.op = "text")

\* C13: every text the PDF export draws, the title and every body line, on
\* the first page and after a page break, is drawn with the embedded Tamil
\* font if and only if the selected language is 'Tamil (Script)', and with
\* the built-in Latin font otherwise; the font used is one the document has.
C13_FontFollowsLanguage ==
    saveResult = "pdf" =>
        LET doc == SavedPdf
        IN \A j \in 1..Len(doc.ops) :
              LET o == doc.ops[j]
              IN o.op = "text" =>
                    /\ o.font = "NotoSansTamil" <=> selectedLanguage = "Tamil (Script)"
                    /\ o.font = "helvetica" <=> selectedLanguage # "Tamil (Script)"
                    /\ <<o.font, o.style>> \in doc.fonts

\* A Tamil-script translation exported on more than one page.
C13_Witness ==
    /\ saveResult = "pdf"
    /\ selectedLanguage = "Tamil (Script)"
    /\ SavedPdf.page > 1
    /\ Len(TextOps(SavedPdf)) = MaxLines + 1

WordChars == AlnumChars \cup {"_"}
SafeChars == Range(LowerLetters) \cup Digits \cup {"_"}

\* C15 as claimed: the sanitized part of the text export's file name has
\* only characters of [a-z0-9_] and as many characters as the identifier has
\* characters of [A-Za-z0-9_].
C15_OthersRemoved ==
    saveResult = "txt" =>
        LET id == IdChars(selectedLanguage)
            safe == SafeLanguage(selectedLanguage)
        IN /\ \A k \in 1..Len(safe) : safe[k] \in SafeChars
           /\ Len(safe) = Cardinality({k \in 1..Len(id) : id[k] \in WordChars})

\* C15 as amended: every character of the identifier outside [A-Za-z0-9] is
\* replaced by '_' and the others are lowercased, so the sanitized part has
\* only characters of [a-z0-9_] and is as long as the identifier.
C15_OthersReplaced ==
    saveResult = "txt" =>
        LET id == IdChars(selectedLanguage)
            safe == SafeLanguage(selectedLanguage)
        IN /\ Len(safe) = Len(id)
           /\ \A k \in 1..Len(safe) :
                 /\ safe[k] \in SafeChars
                 /\ safe[k] = "_" <=> id[k] \notin AlnumChars
           /\ TextFileName(selectedLanguage) = <<"transcript-">> \o safe \o <<".txt">>

\* The text export of a language whose identifier has a space and brackets.
C15_Witness ==
    /\ saveResult = "txt"
    /\ selectedLanguage = "Chinese (Simplified)"
    /\ Len(SafeLanguage(selectedLanguage)) = Len(IdChars(selectedLanguage))

\* C16: the PDF export draws the body lines in their order, none skipped;
\* every body line is drawn at a y with margin <= y and
\* y + lineHeight <= pageHeight - margin; a page is added exactly when the
\* next line would not fit under that bound, and the line is then drawn at
\* y = margin of the new page.
C16_LinesWithinPages ==
    saveResult = "pdf" =>
        LET lines == SplitTextToSize(FullText(translation.items))
            texts == TextOps(SavedPdf)
            ops == SavedPdf.ops
        IN /\ Len(texts) = Len(lines) + 1
           /\ texts[1].page = 1
           /\ texts[1].y = Margin
           /\ \A k \in 1..Len(lines) :
                 LET o == texts[k + 1]
                     cursor == IF k = 1 THEN Margin + TitleSkip
                                        ELSE texts[k].y + LineHeight
                     fits == cursor + LineHeight <= PageHeight - Margin
                 IN /\ o.str = lines[k]
                    /\ o.x = Margin
                    /\ Margin <= o.y
                    /\ o.y + LineHeight <= PageHeight - Margin
                    /\ fits => (o.page = texts[k].page /\ o.y = cursor)
                    /\ ~fits => (o.page = texts[k].page + 1 /\ o.y = Margin)
           /\ \A j \in 1..Len(ops) :
                 ops[j].op = "addPage" =>
                    /\ j > 1
                    /\ j < Len(ops)
                    /\ ops[j - 1].op = "text"
                    /\ ops[j + 1].op = "text"
                    /\ ops[j + 1].page = ops[j - 1].page + 1
                    /\ ops[j + 1].y = Margin
           /\ Cardinality({j \in 1..Len(ops) : ops[j].op = "addPage"}) = SavedPdf.page - 1

\* A translation exported on three pages: two page breaks.
C16_Witness ==
    /\ saveResult = "pdf"
    /\ Len(translation.items) = MaxLines
    /\ SavedPdf.page = 3
    /\ \E j \in 1..Len(SavedPdf.ops) :
          /\ SavedPdf.ops[j].op = "text"
          /\ SavedPdf.ops[j].page = 3
          /\ SavedPdf.ops[j].y = Margin

\* A file list the uploader does not take: empty, or headed by a file whose
\* media type does not start with 'audio/'.
NotTaken(files) == Len(files) = 0 \/ ~StartsWith(files[1].type, AudioPrefix)

\* C21: the file the uploader displays is the file last handed to the parent
\* (App's audioFile), and it is null or a file whose media type starts with
\* 'audio/'; a file-input change or a drop with a non-audio file or an empty
\* list, and a drop while the uploader is disabled, change neither of them.
C21_UploaderAgreesWithParent ==
    /\ [](/\ selectedFile = audioFile
          /\ selectedFile.null \/ StartsWith(selectedFile.type, AudioPrefix))
    /\ [][\A files \in FileLists :
            (/\ OnFileInputChange(files) \/ OnDrop(files)
             /\ NotTaken(files) \/ Disabled) =>
                UNCHANGED <<selectedFile, audioFile>>]_vars

\* A second audio file was selected after a run on the first one returned.
C21_Witness ==
    /\ selectedFile = AudioB
    /\ audioFile = AudioB
    /\ lastRun.pc = "done"
    /\ lastRun.audioFile = AudioA

====
